---- MODULE Spec2Model ----
(***************************************************************************)
(* Model of maze_algo: WeightQuickUnionDisjointSet (disjoint_set.py),      *)
(* MazeCellDSet (cell_dset.py) and KruskalMaze (kruskal_gen.py).           *)
(*                                                                         *)
(* Spec      : a WeightQuickUnionDisjointSet driven by arbitrary calls.    *)
(* SpecN5    : a set of size n = 5 under union and is_connected calls.     *)
(* SpecMaze  : one run of KruskalMaze.__init__.                            *)
(***************************************************************************)
EXTENDS Integers, Sequences, FiniteSets, TLC

VARIABLES
    n,            \* the argument of WeightQuickUnionDisjointSet.__init__
    count,        \* self._count
    parent_map,   \* self.parent_map (a dict: a function on its keys)
    sz_map,       \* self.sz_map
    err,          \* how the last call ended: "none" or the exception raised
    ret,          \* what the last call returned
    last_op,      \* the name of the last method called on the set
    component,    \* id -> the ids joined to it by the union(p,q) calls so far
    sweep_i,      \* test_tiny_weight_quick_union's  for i in range(array_len)
    step,         \* how many calls of Scenario have been made in order
    pc,           \* KruskalMaze.__init__: where the constructor is
    width,        \* KruskalMaze.__init__'s argument
    height,       \* KruskalMaze.__init__'s argument
    grid,         \* self.grid, <<x, y>> -> 0 or 1
    cell_ls,      \* the room cells, in list order
    not_care_ls,  \* the junction dots, in list order
    wall_ls,      \* the wall candidates the loop has not yet taken
    index_map     \* MazeCellDSet.index_map

dsvars   == <<n, count, parent_map, sz_map, err, ret>>
obsvars  == <<last_op, component, sweep_i, step>>
mazevars == <<pc, width, height, grid, cell_ls, not_care_ls, wall_ls, index_map>>
vars     == <<dsvars, obsvars, mazevars>>

----------------------------------------------------------------------------
(* Bounds *)

\* largest n the disjoint set is created with under Spec
MaxN == 4

\* largest width / height handed to KruskalMaze under SpecMaze
MaxWidth  == 5
MaxHeight == 5

----------------------------------------------------------------------------
(* Python values *)

\* range(a, b, s) for s > 0, as a set
Range(a, b, s) == {v \in a..(b - 1) : (v - a) % s = 0}

\* a call's return value; the three kinds never compare equal
RetNone    == [kind |-> "None", b |-> FALSE, i |-> 0]
RetBool(v) == [kind |-> "bool", b |-> v, i |-> 0]
RetInt(v)  == [kind |-> "int", b |-> FALSE, i |-> v]

\* the empty dict
EmptyDict == <<>>

----------------------------------------------------------------------------
(* WeightQuickUnionDisjointSet, as operators on d = [count, parent_map,    *)
(* sz_map]; each call gives [d, ret, err].                                 *)

\* DSetInit with the keys of QuickFindDisjointSet.__init__, range(1, n)
DSetInitFrom1(size) ==
    [count      |-> size,
     parent_map |-> [i \in Range(1, size, 1) |-> i],
     sz_map     |-> [i \in Range(1, size, 1) |-> 1]]

\* __init__(n)
DSetInit(size) ==
    [count      |-> size,
     parent_map |-> [i \in Range(0, size, 1) |-> i],
     sz_map     |-> [i \in Range(0, size, 1) |-> 1]]

\* RootOf with an if for the while: one step up
RootOfOneHop(pm, q) == pm[q]

\* first loop of find: walk up to the root without writing
RECURSIVE RootOf(_, _)
RootOf(pm, q) == IF q = pm[q] THEN q ELSE RootOf(pm, pm[q])

\* Compress that writes nothing
CompressNothing(pm, sz, p, q) == [parent_map |-> pm, sz_map |-> sz]

\* Compress that gives each node on the path itself as parent
RECURSIVE CompressDetach(_, _, _, _)
CompressDetach(pm, sz, p, q) ==
    IF p = pm[p]
    THEN [parent_map |-> pm, sz_map |-> sz]
    ELSE CompressDetach([pm EXCEPT ![p] = p], [sz EXCEPT ![p] = 2], pm[p], q)

\* Compress that also writes 2 for the root's size
RECURSIVE CompressSizesRoot(_, _, _, _)
CompressSizesRoot(pm, sz, p, q) ==
    IF p = pm[p]
    THEN [parent_map |-> pm, sz_map |-> [sz EXCEPT ![p] = 2]]
    ELSE CompressSizesRoot([pm EXCEPT ![p] = q], [sz EXCEPT ![p] = 2], pm[p], q)

\* second loop of find: point every node on p's path at q, set its size to 2
RECURSIVE Compress(_, _, _, _)
Compress(pm, sz, p, q) ==
    IF p = pm[p]
    THEN [parent_map |-> pm, sz_map |-> sz]
    ELSE Compress([pm EXCEPT ![p] = q], [sz EXCEPT ![p] = 2], pm[p], q)

\* Find reading parent_map.get(q, q): a missing key is its own root
FindGetDefault(d, p) ==
    IF p \notin DOMAIN d.parent_map
    THEN [d |-> d, ret |-> RetInt(p), err |-> "none"]
    ELSE LET q == RootOf(d.parent_map, p)
             c == Compress(d.parent_map, d.sz_map, p, q)
         IN  [d   |-> [d EXCEPT !.parent_map = c.parent_map, !.sz_map = c.sz_map],
              ret |-> RetInt(q),
              err |-> "none"]

\* find(p); parent_map[q] on a missing key raises KeyError before any write
Find(d, p) ==
    IF p \notin DOMAIN d.parent_map
    THEN [d |-> d, ret |-> RetNone, err |-> "KeyError"]
    ELSE LET q == RootOf(d.parent_map, p)
             c == Compress(d.parent_map, d.sz_map, p, q)
         IN  [d   |-> [d EXCEPT !.parent_map = c.parent_map, !.sz_map = c.sz_map],
              ret |-> RetInt(q),
              err |-> "none"]

\* Link that updates the size and the count but leaves q_root a root
LinkNoAttach(d, p_root, q_root) ==
    IF q_root = p_root
    THEN d
    ELSE IF d.sz_map[p_root] < d.sz_map[q_root]
         THEN [d EXCEPT !.parent_map[p_root] = q_root,
                        !.sz_map[q_root] = d.sz_map[p_root] + d.sz_map[q_root],
                        !.count = d.count - 1]
         ELSE [d EXCEPT !.sz_map[p_root] = d.sz_map[p_root] + d.sz_map[q_root],
                        !.count = d.count - 1]

\* Link with the decrement inside the else branch only
LinkCountInElseOnly(d, p_root, q_root) ==
    IF q_root = p_root
    THEN d
    ELSE IF d.sz_map[p_root] < d.sz_map[q_root]
         THEN [d EXCEPT !.parent_map[p_root] = q_root,
                        !.sz_map[q_root] = d.sz_map[p_root] + d.sz_map[q_root]]
         ELSE [d EXCEPT !.parent_map[q_root] = p_root,
                        !.sz_map[p_root] = d.sz_map[p_root] + d.sz_map[q_root],
                        !.count = d.count - 1]

\* Link whose early return still counts a merge
LinkAlwaysCounts(d, p_root, q_root) ==
    IF q_root = p_root
    THEN [d EXCEPT !.count = d.count - 1]
    ELSE IF d.sz_map[p_root] < d.sz_map[q_root]
         THEN [d EXCEPT !.parent_map[p_root] = q_root,
                        !.sz_map[q_root] = d.sz_map[p_root] + d.sz_map[q_root],
                        !.count = d.count - 1]
         ELSE [d EXCEPT !.parent_map[q_root] = p_root,
                        !.sz_map[p_root] = d.sz_map[p_root] + d.sz_map[q_root],
                        !.count = d.count - 1]

\* Link with the size test turned round
LinkLargerUnderSmaller(d, p_root, q_root) ==
    IF q_root = p_root
    THEN d
    ELSE IF d.sz_map[p_root] > d.sz_map[q_root]
         THEN [d EXCEPT !.parent_map[p_root] = q_root,
                        !.sz_map[q_root] = d.sz_map[p_root] + d.sz_map[q_root],
                        !.count = d.count - 1]
         ELSE [d EXCEPT !.parent_map[q_root] = p_root,
                        !.sz_map[p_root] = d.sz_map[p_root] + d.sz_map[q_root],
                        !.count = d.count - 1]

\* the part of union after the two finds
Link(d, p_root, q_root) ==
    IF q_root = p_root
    THEN d
    ELSE IF d.sz_map[p_root] < d.sz_map[q_root]
         THEN [d EXCEPT !.parent_map[p_root] = q_root,
                        !.sz_map[q_root] = d.sz_map[p_root] + d.sz_map[q_root],
                        !.count = d.count - 1]
         ELSE [d EXCEPT !.parent_map[q_root] = p_root,
                        !.sz_map[p_root] = d.sz_map[p_root] + d.sz_map[q_root],
                        !.count = d.count - 1]

\* union(p, q)
Union(d, p, q) ==
    LET f1 == Find(d, p)
        f2 == Find(f1.d, q)
    IN  IF f1.err # "none" THEN [d |-> f1.d, ret |-> RetNone, err |-> f1.err]
        ELSE IF f2.err # "none" THEN [d |-> f2.d, ret |-> RetNone, err |-> f2.err]
        ELSE [d |-> Link(f2.d, f1.ret.i, f2.ret.i), ret |-> RetNone, err |-> "none"]

\* is_connected(p, q)
IsConnected(d, p, q) ==
    LET f1 == Find(d, p)
        f2 == Find(f1.d, q)
    IN  IF f1.err # "none" THEN [d |-> f1.d, ret |-> RetNone, err |-> f1.err]
        ELSE IF f2.err # "none" THEN [d |-> f2.d, ret |-> RetNone, err |-> f2.err]
        ELSE [d |-> f2.d, ret |-> RetBool(f1.ret.i = f2.ret.i), err |-> "none"]

\* count()
Count(d) == [d |-> d, ret |-> RetInt(d.count), err |-> "none"]

----------------------------------------------------------------------------
(* The disjoint set held in the variables *)

DSet == [count |-> count, parent_map |-> parent_map, sz_map |-> sz_map]

\* the ids a caller passes: every key and one id off each end
ArgIds == (-1)..(IF n < 0 THEN 0 ELSE n)

\* the ids of the set
Ids == DOMAIN parent_map

\* the union graph: the components after adding the edge p - q
Joined(comp, p, q) ==
    IF p \in DOMAIN comp /\ q \in DOMAIN comp
    THEN [x \in DOMAIN comp |->
            IF x \in comp[p] \cup comp[q] THEN comp[p] \cup comp[q] ELSE comp[x]]
    ELSE comp

\* the calls of the concrete scenario, in order
Scenario ==
    << [op |-> "union", p |-> 0, q |-> 1],
       [op |-> "union", p |-> 2, q |-> 3],
       [op |-> "union", p |-> 1, q |-> 2],
       [op |-> "is_connected", p |-> 0, q |-> 3],
       [op |-> "union", p |-> 0, q |-> 3],
       [op |-> "is_connected", p |-> 0, q |-> 1],
       [op |-> "is_connected", p |-> 2, q |-> 3] >>

\* step counts the calls made so far when they are exactly Scenario's first
\* calls on a fresh set; -1 once the calls have left the scenario
Advance(call) ==
    IF step >= 0 /\ step < Len(Scenario) /\ Scenario[step + 1] = call
    THEN step + 1
    ELSE -1

\* the state after a call that gave r
Returns(r, call) ==
    /\ count' = r.d.count
    /\ parent_map' = r.d.parent_map
    /\ sz_map' = r.d.sz_map
    /\ ret' = r.ret
    /\ err' = r.err
    /\ last_op' = call.op
    /\ step' = Advance(call)
    /\ UNCHANGED n

\* no for-loop over range(array_len) is under way
NoSweep == sweep_i = -1 \/ sweep_i >= n

CallUnion(p, q) ==
    /\ pc = "dset"
    /\ NoSweep
    /\ LET r == Union(DSet, p, q)
       IN  /\ Returns(r, [op |-> "union", p |-> p, q |-> q])
           /\ component' = IF r.err = "none" THEN Joined(component, p, q) ELSE component
    /\ sweep_i' = -1
    /\ UNCHANGED mazevars

CallFind(p) ==
    /\ pc = "dset"
    /\ NoSweep
    /\ Returns(Find(DSet, p), [op |-> "find", p |-> p, q |-> p])
    /\ sweep_i' = -1
    /\ UNCHANGED <<component, mazevars>>

CallIsConnected(p, q) ==
    /\ pc = "dset"
    /\ NoSweep
    /\ Returns(IsConnected(DSet, p, q), [op |-> "is_connected", p |-> p, q |-> q])
    /\ sweep_i' = -1
    /\ UNCHANGED <<component, mazevars>>

CallCount ==
    /\ pc = "dset"
    /\ NoSweep
    /\ Returns(Count(DSet), [op |-> "count", p |-> 0, q |-> 0])
    /\ sweep_i' = -1
    /\ UNCHANGED <<component, mazevars>>

\* test_tiny_weight_quick_union:  for i in range(array_len): uf.find(i)
SweepBegin ==
    /\ pc = "dset"
    /\ NoSweep
    /\ n >= 0
    /\ sweep_i' = 0
    /\ UNCHANGED <<dsvars, last_op, component, step, mazevars>>

SweepFind ==
    /\ pc = "dset"
    /\ sweep_i >= 0 /\ sweep_i < n
    /\ Returns(Find(DSet, sweep_i), [op |-> "find", p |-> sweep_i, q |-> sweep_i])
    /\ sweep_i' = sweep_i + 1
    /\ UNCHANGED <<component, mazevars>>

\* the state right after WeightQuickUnionDisjointSet(size)
Created(size) ==
    /\ n = size
    /\ count = DSetInit(size).count
    /\ parent_map = DSetInit(size).parent_map
    /\ sz_map = DSetInit(size).sz_map
    /\ err = "none"
    /\ ret = RetNone
    /\ last_op = "__init__"
    /\ component = [x \in Range(0, size, 1) |-> {x}]
    /\ sweep_i = -1
    /\ step = 0

NoMaze ==
    /\ pc = "dset"
    /\ width = 0
    /\ height = 0
    /\ grid = EmptyDict
    /\ cell_ls = <<>>
    /\ not_care_ls = <<>>
    /\ wall_ls = {}
    /\ index_map = EmptyDict

Init == (\E size \in (-1)..MaxN : Created(size)) /\ NoMaze

InitN5 == Created(5) /\ NoMaze

Next ==
    \/ \E p \in ArgIds, q \in ArgIds : CallUnion(p, q)
    \/ \E p \in ArgIds : CallFind(p)
    \/ \E p \in ArgIds, q \in ArgIds : CallIsConnected(p, q)
    \/ CallCount
    \/ SweepBegin
    \/ SweepFind

\* the calls the scenario is made of, on the ids of the set
NextN5 ==
    \/ \E p \in Ids, q \in Ids : CallUnion(p, q)
    \/ \E p \in Ids, q \in Ids : CallIsConnected(p, q)

Spec == Init /\ [][Next]_vars

SpecN5 == InitN5 /\ [][NextN5]_vars

----------------------------------------------------------------------------
(* MazeCellDSet (cell_dset.py) *)

\* the sequence of the pairs <<x, y>>, x in xs (outer loop), y in ys (inner
\* loop), both in increasing order: a two-level list comprehension
RECURSIVE Ascending(_)
Ascending(S) ==
    IF S = {} THEN <<>>
    ELSE LET m == CHOOSE v \in S : \A u \in S : v <= u
         IN  <<m>> \o Ascending(S \ {m})

Pairs(xs, ys) ==
    LET sx == Ascending(xs)
        sy == Ascending(ys)
    IN  [k \in 1..(Len(sx) * Len(sy)) |->
            <<sx[((k - 1) \div Len(sy)) + 1], sy[((k - 1) % Len(sy)) + 1]>>]

\* IndexMap keyed by x + y * height
IndexMapByHeight(point_ls, w) ==
    LET index(k) == point_ls[k][1] + point_ls[k][2] * height
        keys == {index(k) : k \in 1..Len(point_ls)}
    IN  [ix \in keys |->
            (CHOOSE k \in 1..Len(point_ls) :
                /\ index(k) = ix
                /\ \A j \in 1..Len(point_ls) : index(j) = ix => j <= k) - 1]

\* __init__: index_map[x + y * width] = i over enumerate(point_ls); a later
\* point with the same index overwrites an earlier one
IndexMap(point_ls, w) ==
    LET index(k) == point_ls[k][1] + point_ls[k][2] * w
        keys == {index(k) : k \in 1..Len(point_ls)}
    IN  [ix \in keys |->
            (CHOOSE k \in 1..Len(point_ls) :
                /\ index(k) = ix
                /\ \A j \in 1..Len(point_ls) : index(j) = ix => j <= k) - 1]

\* _find(x, y)
CellFind(d, x, y) ==
    LET index == x + y * width
    IN  IF index \notin DOMAIN index_map
        THEN [d |-> d, ret |-> RetNone, err |-> "KeyError"]
        ELSE Find(d, index_map[index])

\* is_connected(x1, y1, x2, y2)
CellIsConnected(d, x1, y1, x2, y2) ==
    LET f1 == CellFind(d, x1, y1)
        f2 == CellFind(f1.d, x2, y2)
    IN  IF f1.err # "none" THEN [d |-> f1.d, ret |-> RetNone, err |-> f1.err]
        ELSE IF f2.err # "none" THEN [d |-> f2.d, ret |-> RetNone, err |-> f2.err]
        ELSE [d |-> f2.d, ret |-> RetBool(f1.ret.i = f2.ret.i), err |-> "none"]

\* CellUnion whose index2 is computed from x1, y1 again
CellUnionFirstTwice(d, x1, y1, x2, y2) ==
    LET index1 == x1 + y1 * width
        index2 == x1 + y1 * width
    IN  IF index1 \notin DOMAIN index_map \/ index2 \notin DOMAIN index_map
        THEN [d |-> d, ret |-> RetNone, err |-> "KeyError"]
        ELSE Union(d, index_map[index1], index_map[index2])

\* union(x1, y1, x2, y2)
CellUnion(d, x1, y1, x2, y2) ==
    LET index1 == x1 + y1 * width
        index2 == x2 + y2 * width
    IN  IF index1 \notin DOMAIN index_map \/ index2 \notin DOMAIN index_map
        THEN [d |-> d, ret |-> RetNone, err |-> "KeyError"]
        ELSE Union(d, index_map[index1], index_map[index2])

----------------------------------------------------------------------------
(* KruskalMaze.__init__ (kruskal_gen.py) *)

\* IllegalHeight that lets a height of 1 through
IllegalHeightBelow1(h) == h % 2 = 0 \/ h < 1

\* the two checks that raise
IllegalHeight(h) == h % 2 = 0 \/ h < 3
IllegalWidth(w)  == w % 2 = 0 \/ w < 3

\* the two room cells a wall candidate lies between
Rooms(x, y) ==
    IF x % 2 = 1
    THEN << <<x - 1, y>>, <<x + 1, y>> >>
    ELSE << <<x, y - 1>>, <<x, y + 1>> >>

\* Visit without the is_connected test: every visited candidate is opened
VisitAlwaysOpens(d, g, x, y) ==
    LET r  == Rooms(x, y)
        u  == CellUnion(d, r[1][1], r[1][2], r[2][1], r[2][2])
    IN  IF u.err # "none"
        THEN [d |-> u.d, grid |-> g, err |-> u.err]
        ELSE [d |-> u.d, grid |-> [g EXCEPT ![<<x, y>>] = 0], err |-> "none"]

\* the body of  for x, y in wall_ls  past the break: [d, grid, err]
Visit(d, g, x, y) ==
    LET r  == Rooms(x, y)
        c  == CellIsConnected(d, r[1][1], r[1][2], r[2][1], r[2][2])
        u  == CellUnion(c.d, r[1][1], r[1][2], r[2][1], r[2][2])
        g0 == [g EXCEPT ![<<x, y>>] = 0]
    IN  IF c.err # "none" THEN [d |-> c.d, grid |-> g, err |-> c.err]
        ELSE IF c.ret.b THEN [d |-> c.d, grid |-> g, err |-> "none"]
        ELSE IF u.err # "none"
             \* the y-odd branch writes the grid before the union, the x-odd after
             THEN [d |-> u.d, grid |-> IF x % 2 = 1 THEN g ELSE g0, err |-> u.err]
             ELSE [d |-> u.d, grid |-> g0, err |-> "none"]

SetDSet(d) ==
    /\ count' = d.count
    /\ parent_map' = d.parent_map
    /\ sz_map' = d.sz_map

\* lines 33-36: the dimension checks
Reject ==
    /\ pc = "start"
    /\ IllegalHeight(height) \/ IllegalWidth(width)
    /\ pc' = "error"
    /\ err' = "Exception"
    /\ UNCHANGED <<n, count, parent_map, sz_map, ret, obsvars>>
    /\ UNCHANGED <<width, height, grid, cell_ls, not_care_ls, wall_ls, index_map>>

\* lines 37-50: the grid, the three lists, the MazeCellDSet, the shuffle
Build ==
    /\ pc = "start"
    /\ ~ (IllegalHeight(height) \/ IllegalWidth(width))
    /\ LET cells == Pairs(Range(0, width, 2), Range(0, height, 2))
           dots  == Pairs(Range(1, width, 2), Range(1, height, 2))
           walls == Pairs(Range(1, width, 2), Range(0, height, 2))
                    \o Pairs(Range(0, width, 2), Range(1, height, 2))
           rooms == {cells[k] : k \in 1..Len(cells)}
       IN  /\ cell_ls' = cells
           /\ not_care_ls' = dots
           \* random.shuffle(wall_ls): any order; the loop draws it as it goes
           /\ wall_ls' = {walls[k] : k \in 1..Len(walls)}
           /\ grid' = [c \in (0..(width - 1)) \X (0..(height - 1)) |->
                         IF c \in rooms THEN 0 ELSE 1]
           /\ index_map' = IndexMap(cells, width)
           /\ n' = Len(cells)
           /\ SetDSet(DSetInit(Len(cells)))
           /\ component' = [x \in Range(0, Len(cells), 1) |-> {x}]
    /\ pc' = "carve"
    /\ UNCHANGED <<err, ret, last_op, sweep_i, step, width, height>>

\* Carve without the break of lines 52-53: the loop runs on at count() == 1
CarveNoBreak ==
    /\ pc = "carve"
    /\ \E w \in wall_ls :
         \E v \in {Visit(DSet, grid, w[1], w[2])} :
             /\ SetDSet(v.d)
             /\ grid' = v.grid
             /\ err' = v.err
             /\ pc' = IF v.err = "none" THEN "carve" ELSE "error"
             /\ wall_ls' = wall_ls \ {w}
             /\ component' =
                  IF v.err = "none" /\ v.grid # grid
                  THEN LET r == Rooms(w[1], w[2])
                       IN  Joined(component,
                                  index_map[r[1][1] + r[1][2] * width],
                                  index_map[r[2][1] + r[2][2] * width])
                  ELSE component
    /\ UNCHANGED <<n, ret, last_op, sweep_i, step>>
    /\ UNCHANGED <<width, height, cell_ls, not_care_ls, index_map>>

\* one pass of the loop body, lines 54-65
Carve ==
    /\ pc = "carve"
    /\ count # 1
    /\ \E w \in wall_ls :
         \E v \in {Visit(DSet, grid, w[1], w[2])} :
             /\ SetDSet(v.d)
             /\ grid' = v.grid
             /\ err' = v.err
             /\ pc' = IF v.err = "none" THEN "carve" ELSE "error"
             /\ wall_ls' = wall_ls \ {w}
             /\ component' =
                  IF v.err = "none" /\ v.grid # grid
                  THEN LET r == Rooms(w[1], w[2])
                       IN  Joined(component,
                                  index_map[r[1][1] + r[1][2] * width],
                                  index_map[r[2][1] + r[2][2] * width])
                  ELSE component
    /\ UNCHANGED <<n, ret, last_op, sweep_i, step>>
    /\ UNCHANGED <<width, height, cell_ls, not_care_ls, index_map>>

\* the loop ends: the break of lines 52-53, or no candidate is left
Leave ==
    /\ pc = "carve"
    /\ count = 1 \/ wall_ls = {}
    /\ pc' = "cosmetic"
    /\ UNCHANGED <<dsvars, obsvars>>
    /\ UNCHANGED <<width, height, grid, cell_ls, not_care_ls, wall_ls, index_map>>

\* numpy's random.randint(low, high): low <= k < high, ValueError if low >= high
RandInt(low, high) == low..(high - 1)

\* numpy's random.choice(m, k, False): k distinct indices below m
Choice(m, k) == {S \in SUBSET (0..(m - 1)) : Cardinality(S) = k}

\* lines 66-69: the cosmetic pass, and the return: self.grid, self.width and
\* self.height stay, the lists and cell_dset are locals and go
Cosmetic ==
    /\ pc = "cosmetic"
    /\ IF RandInt(0, Len(not_care_ls)) = {}
       THEN /\ pc' = "error"
            /\ err' = "ValueError"
            /\ grid' = grid
       ELSE \E additional_wall \in RandInt(0, Len(not_care_ls)) :
              \E chosen \in Choice(Len(not_care_ls), additional_wall) :
                /\ grid' = [c \in DOMAIN grid |->
                              IF \E i \in chosen : not_care_ls[i + 1] = c
                              THEN 0 ELSE grid[c]]
                /\ pc' = "done"
                /\ err' = err
    /\ cell_ls' = <<>>
    /\ not_care_ls' = <<>>
    /\ wall_ls' = {}
    /\ index_map' = EmptyDict
    /\ n' = 0
    /\ SetDSet(DSetInit(0))
    /\ component' = EmptyDict
    /\ UNCHANGED <<ret, last_op, sweep_i, step, width, height>>

InitMaze ==
    /\ pc = "start"
    /\ width \in 0..MaxWidth
    /\ height \in 0..MaxHeight
    /\ grid = EmptyDict
    /\ cell_ls = <<>>
    /\ not_care_ls = <<>>
    /\ wall_ls = {}
    /\ index_map = EmptyDict
    /\ n = 0
    /\ count = 0
    /\ parent_map = EmptyDict
    /\ sz_map = EmptyDict
    /\ err = "none"
    /\ ret = RetNone
    /\ last_op = "none"
    /\ component = EmptyDict
    /\ sweep_i = -1
    /\ step = -1

NextMaze ==
    \/ Reject
    \/ Build
    \/ Carve
    \/ Leave
    \/ Cosmetic

SpecMaze == InitMaze /\ [][NextMaze]_vars

----------------------------------------------------------------------------
(* Graphs, for stating the properties *)

\* the number of simple paths from a to b that avoid the nodes in seen, in
\* the graph adj (node -> the set of its neighbours)
RECURSIVE PathsFrom(_, _, _, _), PathsVia(_, _, _, _)
PathsFrom(adj, a, b, seen) ==
    IF a = b THEN 1 ELSE PathsVia(adj, adj[a] \ (seen \cup {a}), b, seen \cup {a})
PathsVia(adj, S, b, seen) ==
    IF S = {} THEN 0
    ELSE LET c == CHOOSE x \in S : TRUE
         IN  PathsFrom(adj, c, b, seen) + PathsVia(adj, S \ {c}, b, seen)

\* every two nodes are joined by exactly one simple path; the graph is
\* undirected, so each pair {a, b} is taken once, a before b
Before(a, b) == a[1] < b[1] \/ (a[1] = b[1] /\ a[2] < b[2])
UniquePaths(adj) ==
    \A a \in DOMAIN adj, b \in DOMAIN adj :
        Before(a, b) => PathsFrom(adj, a, b, {}) = 1

\* the three classes of grid coordinates
RoomCells == {c \in DOMAIN grid : c[1] % 2 = 0 /\ c[2] % 2 = 0}
WallCandidates == {c \in DOMAIN grid : (c[1] + c[2]) % 2 = 1}
JunctionDots == {c \in DOMAIN grid : c[1] % 2 = 1 /\ c[2] % 2 = 1}

\* the wall candidates marked passable
PassableWalls == {c \in WallCandidates : grid[c] = 0}

\* room cells as nodes, passable wall candidates as edges: two rooms two
\* apart are joined when the wall candidate between them is passable
RoomGraph ==
    [r \in RoomCells |->
        {t \in RoomCells :
            /\ (r[1] - t[1]) * (r[1] - t[1]) + (r[2] - t[2]) * (r[2] - t[2]) = 4
            /\ grid[<<(r[1] + t[1]) \div 2, (r[2] + t[2]) \div 2>>] = 0}]

\* passable cells as nodes, horizontal / vertical adjacency as edges
OpenCells == {c \in DOMAIN grid : grid[c] = 0}
OpenGraph ==
    [c \in OpenCells |->
        {t \in OpenCells :
            (c[1] - t[1]) * (c[1] - t[1]) + (c[2] - t[2]) * (c[2] - t[2]) = 1}]

\* a legal maze dimension
OddAtLeast3(v) == v >= 3 /\ v % 2 = 1

\* the answer is_connected(a, b) gives on the set [c, pm, sz]
Answer(c, pm, sz, a, b) ==
    IsConnected([count |-> c, parent_map |-> pm, sz_map |-> sz], a, b).ret

\* the roots of the forest
Roots == {p \in Ids : parent_map[p] = p}

\* what a caller can see of the set d: count() and every is_connected(a, b)
Observed(d) ==
    [count   |-> d.count,
     answers |-> [ab \in (DOMAIN d.parent_map) \X (DOMAIN d.parent_map) |->
                     IsConnected(d, ab[1], ab[2]).ret]]

\* the step is a call of union (the sweep's first step leaves last_op as it is)
UnionStep == last_op' = "union" /\ sweep_i' = -1

----------------------------------------------------------------------------
(* The claims *)

\* C1: for n >= 0 and any calls of union, find and is_connected,
\* is_connected(p, q) is true exactly when p and q are in the same component
\* of the graph of the union(p, q) calls made so far; the relation is
\* reflexive, symmetric and transitive; finds do not change the answer.
C1_ConnectedIffSameComponent ==
    LET ans == [pq \in Ids \X Ids |->
                   Answer(count, parent_map, sz_map, pq[1], pq[2])]
    IN  /\ \A p \in Ids, q \in Ids : ans[<<p, q>>] = RetBool(q \in component[p])
        /\ (last_op = "is_connected" /\ err = "none") => ret.kind = "bool"
        /\ \A p \in Ids : ans[<<p, p>>].b
        /\ \A p \in Ids, q \in Ids : ans[<<p, q>>] = ans[<<q, p>>]
        /\ \A p \in Ids, q \in Ids, r \in Ids :
              (ans[<<p, q>>].b /\ ans[<<q, r>>].b) => ans[<<p, r>>].b

\* C1 witness: is_connected has just answered true on a set of one tree that
\* still holds a path of length two
C1_Witness ==
    /\ last_op = "is_connected"
    /\ ret = RetBool(TRUE)
    /\ count = 1
    /\ \E p \in Ids : parent_map[p] # p /\ parent_map[parent_map[p]] # parent_map[p]

\* C2: count() is n right after creation; a union of two ids in different
\* sets lowers it by exactly 1; a union of an already-connected pair, a find
\* and an is_connected leave it unchanged.
C2_CountSteps ==
    /\ (last_op = "__init__" => count = n)
    /\ [][ IF UnionStep /\ component' # component
           THEN count' = count - 1
           ELSE count' = count
         ]_vars

\* C2 witness: unions have merged sets twice and a union of a connected pair
\* has followed
C2_Witness ==
    /\ last_op = "union"
    /\ err = "none"
    /\ count = n - 2
    /\ \E p \in Ids : Cardinality(component[p]) = 3 /\ parent_map[p] # p /\ sz_map[p] = 2

\* C3 as stated: for n >= 0, count() is the number of roots and never below 1.
C3_CountIsRootsAtLeast1 ==
    n >= 0 => (count = Cardinality(Roots) /\ count >= 1)

\* C3 as amended: for n >= 0, count() is the number of roots in every state;
\* it is never below 1 when n >= 1, and is 0 when n = 0.
C3_CountIsRoots ==
    n >= 0 =>
        /\ count = Cardinality(Roots)
        /\ n >= 1 => count >= 1
        /\ n = 0 => count = 0

\* C3 witness: unions have brought a set of more than two ids down to one root
C3_Witness ==
    /\ n >= 3
    /\ last_op = "union"
    /\ count = 1
    /\ Cardinality(Roots) = 1

\* C4: for odd width, height >= 3 and any visiting order, when the carving
\* loop has ended the passable wall candidates number (room cells - 1) and
\* every two room cells are joined by exactly one simple path of the graph of
\* room cells and passable wall candidates.
C4_SpanningTree ==
    pc = "cosmetic" =>
        /\ Cardinality(PassableWalls) = Cardinality(RoomCells) - 1
        /\ UniquePaths(RoomGraph)

\* C4 witness: the loop ended on a 5 x 3 grid with candidates left unvisited
C4_Witness ==
    /\ pc = "cosmetic"
    /\ width = 5
    /\ height = 3
    /\ Cardinality(RoomCells) = 6
    /\ Cardinality(PassableWalls) = 5
    /\ wall_ls # {}

\* C5: the finished grid, after the cosmetic pass, is a perfect maze: every
\* two passable cells are joined by exactly one simple path of passable cells.
C5_PerfectMaze ==
    pc = "done" => UniquePaths(OpenGraph)

\* C6: union(p, q) called twice in a row: after the second call count() and
\* every is_connected(a, b) are what they were after the first. Stated of
\* every reachable set and every p, q: the second call is made on the set the
\* first one leaves, and either leaves that set as it is or changes nothing
\* that count() and is_connected show.
C6_UnionTwice ==
    \A p \in ArgIds, q \in ArgIds :
        \A once \in {Union(DSet, p, q)} :
            \A twice \in {Union(once.d, p, q)} :
                /\ twice.err = once.err
                /\ \/ twice.d = once.d
                   \/ Observed(twice.d) = Observed(once.d)

\* C6 witness: a union has been made, and for some p, q the first union(p, q)
\* merges two sets and the second still rewrites a parent
C6_Witness ==
    /\ last_op = "union"
    /\ err = "none"
    /\ \E p \in Ids, q \in Ids :
          /\ q \notin component[p]
          /\ Union(DSet, p, q).d.count = count - 1
          /\ Union(Union(DSet, p, q).d, p, q).d.parent_map # Union(DSet, p, q).d.parent_map

\* C7: after find has been called once on every id of [0, n), every id's
\* parent is a root.
C7_FlatAfterFindAll ==
    (n >= 0 /\ sweep_i = n) =>
        \A p \in Ids : parent_map[parent_map[p]] = parent_map[p]

\* C7 witness: the sweep has ended on a single tree of four or more ids, and
\* has rewritten the size of a compressed node
C7_Witness ==
    /\ n >= 4
    /\ sweep_i = n
    /\ count = 1
    /\ \E p \in Ids : parent_map[p] # p /\ sz_map[p] = 2 /\ Cardinality(component[p]) = n

\* C8 as stated: n = 5; union(0,1) -> 4; union(2,3) -> 3; union(1,2) -> 2 and
\* is_connected(0,3) false; union(0,3) -> 1, is_connected(0,1) and (2,3) true.
C8_ScenarioAsStated ==
    /\ step = 1 => count = 4
    /\ step = 2 => count = 3
    /\ step = 3 => count = 2
    /\ step = 4 => ret = RetBool(FALSE)
    /\ step = 5 => count = 1
    /\ step = 6 => ret = RetBool(TRUE)
    /\ step = 7 => ret = RetBool(TRUE)

\* C8 as amended: after union(1,2), is_connected(0,3) is true, and union(0,3)
\* leaves count() at 2; the rest as stated.
C8_Scenario ==
    /\ step = 1 => count = 4
    /\ step = 2 => count = 3
    /\ step = 3 => count = 2
    /\ step = 4 => ret = RetBool(TRUE)
    /\ step = 5 => count = 2
    /\ step = 6 => (count = 2 /\ ret = RetBool(TRUE))
    /\ step = 7 => (count = 2 /\ ret = RetBool(TRUE))

\* C8 witness: the whole scenario has been run
C8_Witness ==
    /\ n = 5
    /\ step = 7
    /\ last_op = "is_connected"

\* C9: a width or height that is even or below 3 ends the constructor in an
\* error with no grid, no cell list and no disjoint set made; odd width and
\* height of 3 or more do not end in that error.
C9_DimensionCheck ==
    pc # "start" =>
        IF OddAtLeast3(width) /\ OddAtLeast3(height)
        THEN pc # "error" /\ err = "none" /\ grid # EmptyDict
        ELSE /\ pc = "error"
             /\ err = "Exception"
             /\ grid = EmptyDict
             /\ cell_ls = <<>> /\ not_care_ls = <<>> /\ wall_ls = {}
             /\ index_map = EmptyDict
             /\ parent_map = EmptyDict /\ sz_map = EmptyDict

\* C9 witness: width 4 with a legal height has been rejected
C9_Witness ==
    /\ pc = "error"
    /\ width = 4
    /\ height = 3

\* C10: creating a disjoint set with n < 0 fails with an error.
C10_NegativeSizeFails ==
    n < 0 => err # "none"

\* the room cells handed to MazeCellDSet, and the coordinates a caller may pass:
\* the grid and one step off each side of it
Registered == {cell_ls[k] : k \in 1..Len(cell_ls)}
Coordinates == ((-1)..width) \X ((-1)..height)

\* C11: MazeCellDSet.is_connected and MazeCellDSet.union, given a coordinate
\* that is not one of the registered room cells as either argument, end in an
\* error, and leave count() and the connectivity of the room cells as they were.
C11_UnregisteredFails ==
    pc = "carve" =>
        \A c1 \in Coordinates, c2 \in Coordinates :
            (c1 \notin Registered \/ c2 \notin Registered) =>
                \A i \in {CellIsConnected(DSet, c1[1], c1[2], c2[1], c2[2])} :
                    \A u \in {CellUnion(DSet, c1[1], c1[2], c2[1], c2[2])} :
                        /\ i.err # "none"
                        /\ u.err # "none"
                        /\ i.d = DSet \/ Observed(i.d) = Observed(DSet)
                        /\ u.d = DSet \/ Observed(u.d) = Observed(DSet)

\* C12: find(p), and union(p, q) with either argument, given an id outside
\* [0, n) ends in an error, and count() and the answer of is_connected for
\* every pair of ids are the same after the failed call as before it.
C12_OutOfRangeFails ==
    \A p \in ArgIds \ Ids :
        /\ \A f \in {Find(DSet, p)} :
               /\ f.err # "none"
               /\ f.d = DSet \/ Observed(f.d) = Observed(DSet)
        /\ \A q \in ArgIds :
               \A u1 \in {Union(DSet, p, q)}, u2 \in {Union(DSet, q, p)} :
                   /\ u1.err # "none"
                   /\ u2.err # "none"
                   /\ u1.d = DSet \/ Observed(u1.d) = Observed(DSet)
                   /\ u2.d = DSet \/ Observed(u2.d) = Observed(DSet)

\* C12 witness: union has failed on a set of 4 merged into one tree that
\* still has a path of two links
C12_Witness ==
    /\ n = 4
    /\ last_op = "union"
    /\ err = "KeyError"
    /\ count = 1
    /\ \E p \in Ids : parent_map[parent_map[p]] # parent_map[p]

\* the step is the cosmetic pass of a constructor call that returns
CosmeticStep == pc = "cosmetic" /\ pc' = "done"

\* C13: the cosmetic pass changes only junction dots, and only from wall to
\* passable: every room cell and every wall candidate keeps its value, and
\* for every two room cells the passable paths between them are the same
\* after the pass as before it (here: there are as many simple paths). The
\* pass, lines 66-69, does not name cell_dset.
C13_CosmeticFrame ==
    [][CosmeticStep =>
        /\ \A c \in RoomCells \cup WallCandidates : grid'[c] = grid[c]
        /\ \A c \in JunctionDots : grid'[c] = grid[c] \/ (grid[c] = 1 /\ grid'[c] = 0)
        /\ \A a \in RoomCells, b \in RoomCells :
               Before(a, b) =>
                   PathsFrom(OpenGraph', a, b, {}) = PathsFrom(OpenGraph, a, b, {})]_vars

\* C15: a union that merges two sets, made after any unions and finds,
\* attaches the root of one set directly under the root of the other, never the
\* root of the set with more elements under the root of the set with fewer,
\* and the surviving root's sz_map entry becomes the sum of the two sets'
\* numbers of elements.
C15_SmallerUnderLarger ==
    [][(UnionStep /\ component' # component) =>
        \E r \in Roots : \E s \in Roots \ {r} :
            /\ parent_map'[r] = s
            /\ parent_map'[s] = s
            /\ Cardinality(component[r]) <= Cardinality(component[s])
            /\ sz_map'[s] = Cardinality(component[r]) + Cardinality(component[s])
      ]_vars

\* C15 witness: a union has made one tree of 4 whose root records 4, with a
\* leaf whose recorded size find has overwritten with 2
C15_Witness ==
    /\ n = 4
    /\ last_op = "union"
    /\ err = "none"
    /\ count = 1
    /\ \E r \in Roots : sz_map[r] = 4
    /\ \E p \in Ids \ Roots : sz_map[p] = 2 /\ \A c \in Ids : parent_map[c] # p

\* C16: once is_connected(p, q) is true it is true after every later call:
\* no step takes a pair of ids that is_connected reports connected to a state
\* where it reports them not connected.
C16_NeverSplits ==
    [][\/ parent_map' = parent_map
       \/ \A p \in Ids, q \in Ids :
              Answer(count, parent_map, sz_map, p, q) = RetBool(TRUE) =>
                  Answer(count', parent_map', sz_map', p, q) = RetBool(TRUE)
      ]_vars

\* C16 witness: a find has compressed a path in a set of 4 merged into one
C16_Witness ==
    /\ n = 4
    /\ last_op = "find"
    /\ count = 1
    /\ \E p \in Ids \ Roots : sz_map[p] = 2 /\ \A c \in Ids : parent_map[c] # p
    /\ \A p \in Ids, q \in Ids : Answer(count, parent_map, sz_map, p, q) = RetBool(TRUE)

\* every root records the number of elements of its set
RootSizes == \A r \in Roots : sz_map[r] = Cardinality(component[r])

\* C19: in every state reached by unions and finds, sz_map[r] of every root r
\* is the number of elements in r's set, although find writes 2 for every
\* node it compresses; and an id that is not a root is not a root after any
\* step.
C19_RootSizeIsSetSize ==
    /\ RootSizes
    /\ [][/\ RootSizes'
          /\ \A p \in Ids \ Roots : p \in DOMAIN parent_map' /\ parent_map'[p] # p
        ]_vars

\* C19 witness: a find has written 2 for a leaf of a set of 3 whose root
\* records 3
C19_Witness ==
    /\ n = 4
    /\ last_op = "find"
    /\ count = 2
    /\ \E r \in Roots : sz_map[r] = 3 /\ Cardinality(component[r]) = 3
    /\ \E p \in Ids \ Roots : sz_map[p] = 2 /\ \A c \in Ids : parent_map[c] # p

\* in the loop: the candidates still to visit are walls, and while count()
\* is not 1 there is one left; past the loop: count() is 1
LoopInvariant ==
    /\ pc \in {"carve", "cosmetic"} => \A w \in wall_ls : grid[w] = 1
    /\ (pc = "carve" /\ count # 1) => wall_ls # {}
    /\ pc = "cosmetic" => count = 1

\* C17: for odd width, height >= 3 and every visiting order the carving loop
\* ends with count() == 1: while count() is not 1 a candidate is left and each
\* iteration takes exactly one off the finite list; at count() == 1 the next
\* step leaves the loop without visiting; the candidates not visited are walls.
C17_LoopEndsAtOne ==
    /\ LoopInvariant
    /\ [][/\ LoopInvariant'
          /\ (pc = "carve" /\ count = 1) =>
                 (pc' = "cosmetic" /\ grid' = grid /\ wall_ls' = wall_ls)
          /\ (pc = "carve" /\ count # 1) =>
                 /\ pc' = "carve"
                 /\ wall_ls' \subseteq wall_ls
                 /\ Cardinality(wall_ls') = Cardinality(wall_ls) - 1
        ]_vars

\* C17 witness: on a 5 x 5 grid the loop has ended with count() == 1 and
\* three or more candidates never visited
C17_Witness ==
    /\ pc = "cosmetic"
    /\ width = 5
    /\ height = 5
    /\ count = 1
    /\ Cardinality(wall_ls) >= 3
    /\ \A w \in wall_ls : grid[w] = 1

\* the nodes of the graph adj that a path joins to a node of seen or new;
\* the neighbours of seen are all in seen or new
RECURSIVE Reach(_, _, _)
Reach(adj, seen, new) ==
    IF new = {} THEN seen
    ELSE Reach(adj, seen \cup new, (UNION {adj[x] : x \in new}) \ (seen \cup new))

\* C18: at every step of the carving loop, two room cells are connected in
\* the disjoint set (the adapter's _find gives both the same root, which is
\* what is_connected compares) exactly when a path of passable wall
\* candidates joins them; the passable wall candidates form a forest (they
\* number the room cells less the components of their own graph); they number
\* (room cells) - count(); and visiting a candidate makes it passable exactly
\* when is_connected says its two rooms are not connected before the visit.
C18_GridAgreesWithSet ==
  [](pc = "carve" =>
        /\ Cardinality(PassableWalls) = Cardinality(RoomCells) - count
        /\ \A root \in {[c \in RoomCells |-> CellFind(DSet, c[1], c[2]).ret.i]} :
             \A g \in {RoomGraph} : \A reach \in {[c \in RoomCells |-> Reach(g, {}, {c})]} :
               /\ \A a \in RoomCells :
                      reach[a] = {b \in RoomCells : root[b] = root[a]}
               /\ Cardinality(PassableWalls) =
                      Cardinality(RoomCells) - Cardinality({reach[a] : a \in RoomCells})
        /\ \A w \in wall_ls :
               \A r \in {Rooms(w[1], w[2])}, v \in {Visit(DSet, grid, w[1], w[2])} :
                   v.grid[w] = 0 <=>
                       CellIsConnected(DSet, r[1][1], r[1][2], r[2][1], r[2][2]).ret
                           = RetBool(FALSE))

\* C18 witness: in the loop on a 5 x 5 grid, three candidates are passable,
\* some visited candidate was left a wall, and the rooms are in 6 sets
C18_Witness ==
    /\ pc = "carve"
    /\ width = 5
    /\ height = 5
    /\ Cardinality(PassableWalls) = 3
    /\ count = 6
    /\ \E w \in WallCandidates \ wall_ls : grid[w] = 1

\* the id the adapter passes to the disjoint set for the coordinate c
IdOf(c) == index_map[c[1] + c[2] * width]

\* C20: for odd width, height >= 3 the generator never ends in an error, and
\* in the loop, for every wall candidate still to visit, the two coordinates
\* passed to the adapter are distinct registered room cells inside the grid,
\* next to the candidate on opposite sides, whose lookup keys are in
\* index_map; distinct room cells have distinct ids, all in [0, room count).
C20_VisitedRoomsRegistered ==
    /\ (OddAtLeast3(width) /\ OddAtLeast3(height)) => pc # "error"
    /\ pc = "carve" =>
        /\ \A w \in wall_ls : \A r \in {Rooms(w[1], w[2])} :
               /\ r[1] # r[2]
               /\ r[1][1] + r[2][1] = 2 * w[1]
               /\ r[1][2] + r[2][2] = 2 * w[2]
               /\ \A k \in 1..2 :
                      /\ r[k] \in Registered
                      /\ r[k] \in DOMAIN grid
                      /\ r[k][1] + r[k][2] * width \in DOMAIN index_map
                      /\ (r[k][1] - w[1]) * (r[k][1] - w[1])
                           + (r[k][2] - w[2]) * (r[k][2] - w[2]) = 1
        /\ \A a \in Registered :
               /\ a[1] + a[2] * width \in DOMAIN index_map
               /\ IdOf(a) \in 0..(Len(cell_ls) - 1)
               /\ \A b \in Registered : a # b => IdOf(a) # IdOf(b)

\* C20 witness: on a 3 x 5 grid the loop has visited candidates and merged
\* rooms without error
C20_Witness ==
    /\ pc = "carve"
    /\ width = 3
    /\ height = 5
    /\ err = "none"
    /\ Cardinality(wall_ls) <= 4
    /\ count = 3

====
